---- MODULE Spec2Model ----
(***************************************************************************)
(* Reference-audio segmentation and speaker-embedding pipeline of the TTS  *)
(* microservice: se_extractor.py (split_audio_vad, split_audio_whisper,    *)
(* hash_numpy_array, get_se) and the part of main.py that dispatches       *)
(* get_se to worker threads.                                               *)
(*                                                                         *)
(* Three specifications share the module:                                  *)
(*   Spec        concurrent /api/generate-speech requests running get_se   *)
(*   SpecVad     one call of split_audio_vad on an arbitrary input         *)
(*   SpecWhisper one call of split_audio_whisper on an arbitrary input     *)
(* Times are milliseconds unless a name says otherwise.                    *)
(***************************************************************************)
EXTENDS Integers, Sequences, FiniteSets, TLC

Min(a, b) == IF a <= b THEN a ELSE b
Max(a, b) == IF a >= b THEN a ELSE b

(***************************************************************************)
(* Python floats.  split_audio_vad computes in IEEE-754 doubles and cuts   *)
(* at int(seconds * 1000).  A double is held exactly as a binary           *)
(* fixed-point number in units of 2^-FracBits seconds, written in Limbs    *)
(* digits of LimbBits bits, least significant digit first.  Every          *)
(* operation computes the exact result and rounds it to 53 significant     *)
(* bits, ties to even, as the hardware does.  All values that occur are    *)
(* zero or lie between 2^-17 and 2^20, so every double that occurs is      *)
(* held exactly and every quotient has at least 53 significant bits.       *)
(***************************************************************************)
LimbBits == 20
Limbs == 5
FracBits == 80
Mantissa == 53
Base == 2 ^ LimbBits

FZero == [i \in 1..Limbs |-> 0]
\* the integer n < Base, as a double
FromNat(n) == [i \in 1..Limbs |-> IF i = Limbs THEN n ELSE 0]

RECURSIVE AddCarry(_, _, _)
AddCarry(a, b, i) ==
    IF i = 1 THEN 0 ELSE (a[i - 1] + b[i - 1] + AddCarry(a, b, i - 1)) \div Base
BAdd(a, b) == [i \in 1..Limbs |-> (a[i] + b[i] + AddCarry(a, b, i)) % Base]

\* a - b, for a >= b
RECURSIVE SubBorrow(_, _, _)
SubBorrow(a, b, i) ==
    IF i = 1 THEN 0
    ELSE IF a[i - 1] - b[i - 1] - SubBorrow(a, b, i - 1) < 0 THEN 1 ELSE 0
BSub(a, b) == [i \in 1..Limbs |-> (a[i] - b[i] - SubBorrow(a, b, i) + Base) % Base]

RECURSIVE MulCarry(_, _, _)
MulCarry(a, k, i) ==
    IF i = 1 THEN 0 ELSE (a[i - 1] * k + MulCarry(a, k, i - 1)) \div Base
BMul(a, k) == [i \in 1..Limbs |-> (a[i] * k + MulCarry(a, k, i)) % Base]

\* long division of a by the small divisor d, most significant digit first
RECURSIVE RemFrom(_, _, _)
RemFrom(a, d, i) ==
    IF i > Limbs THEN 0 ELSE (RemFrom(a, d, i + 1) * Base + a[i]) % d
BQuot(a, d) == [i \in 1..Limbs |-> (RemFrom(a, d, i + 1) * Base + a[i]) \div d]
BRem(a, d) == RemFrom(a, d, 1)

\* a < b as numbers
BLess(a, b) ==
    \E i \in 1..Limbs : a[i] < b[i] /\ \A j \in (i + 1)..Limbs : a[j] = b[j]

\* number of significant bits of a
BLen(a) ==
    IF a = FZero THEN 0
    ELSE LET h == CHOOSE i \in 1..Limbs :
                      a[i] # 0 /\ \A j \in (i + 1)..Limbs : a[j] = 0
             k == CHOOSE b \in 1..LimbBits : 2 ^ (b - 1) <= a[h] /\ a[h] < 2 ^ b
         IN  LimbBits * (h - 1) + k
\* bit p of a, p = 1 the least significant
BitAt(a, p) ==
    IF p < 1 THEN 0
    ELSE (a[(p - 1) \div LimbBits + 1] \div (2 ^ ((p - 1) % LimbBits))) % 2
\* a with its s low bits cleared
Truncate(a, s) ==
    [i \in 1..Limbs |->
        IF i < s \div LimbBits + 1 THEN 0
        ELSE IF i = s \div LimbBits + 1 THEN a[i] - (a[i] % (2 ^ (s % LimbBits)))
        ELSE a[i]]
\* 2^s
Unit(s) == [i \in 1..Limbs |-> IF i = s \div LimbBits + 1 THEN 2 ^ (s % LimbBits) ELSE 0]

\* the double nearest to q + r/d (0 <= r < d), ties to even
RoundNearestEven(q, r, d) ==
    LET s == BLen(q) - Mantissa
        guard == BitAt(q, s)
        sticky == r > 0 \/ Truncate(q, s - 1) # q
        odd == BitAt(q, s + 1) = 1
        up == IF s >= 1 THEN guard = 1 /\ (sticky \/ odd)
              ELSE 2 * r > d \/ (2 * r = d /\ odd)
    IN  IF s >= 1
        THEN (IF up THEN BAdd(Truncate(q, s), Unit(s)) ELSE Truncate(q, s))
        ELSE (IF up THEN BAdd(q, Unit(0)) ELSE q)

\* frame_count / frame_rate of a track of ms milliseconds, i.e. ms / 1000
FloatOfMs(ms) ==
    RoundNearestEven(BQuot(FromNat(ms), 1000), BRem(FromNat(ms), 1000), 1000)
\* x / d, d an integer-valued double
FDiv(x, d) == RoundNearestEven(BQuot(x, d), BRem(x, d), d)
\* x + y
FAdd(x, y) == RoundNearestEven(BAdd(x, y), 0, 1)
\* x - y, for x >= y
FSub(x, y) == RoundNearestEven(BSub(x, y), 0, 1)
\* x * k, k an integer-valued double
FMul(x, k) == RoundNearestEven(BMul(x, k), 0, 1)
\* min(x, y)
FMin(x, y) == IF BLess(y, x) THEN y ELSE x
\* int(x): truncation toward zero
FInt(x) == x[Limbs]
\* int(np.round(x)): nearest integer, ties to the even integer
NpRound(x) ==
    LET ip == FInt(x)
        half == BitAt(x, FracBits)
        rest == Truncate(x, FracBits - 1) # x
    IN  IF half = 1 /\ (rest \/ ip % 2 = 1) THEN ip + 1 ELSE ip

(***************************************************************************)
(* Bounds of the model.                                                    *)
(***************************************************************************)
\* concurrent /api/generate-speech requests after start-up (request 0 is the self-test)
NumReq == 2
\* split_audio_vad inputs: speech tracks of 500*u + j ms, u <= MaxHalfSeconds, j <= MaxOffsetMs
MaxHalfSeconds == 50
MaxOffsetMs == 2
\* split_audio_whisper inputs: transcriptions of at most MaxSpans spans
MaxSpans == 2
MaxCalls == 2
MaxServiceReq == 1
MaxClock == 1
\* synthesis requests sent to tts_server
MaxSynth == 2

(***************************************************************************)
(* State.                                                                  *)
(***************************************************************************)
VARIABLES
    audio,      \* reference file -> [decodable, speech_ms]: what the file holds
    req,        \* request -> position and locals of synthesize_speech / get_se
    dirs,       \* directories under processed/
    wavs,       \* audio_name -> (segment index -> "partial" | "full"): wavs/*.wav
    se_files,   \* path -> [complete, data]: embedding files under processed/
    outputs,    \* path -> request that wrote it: files under outputs/
    tmp,        \* audio id -> "fresh" | "old": tts_*.wav files of tts_server in the temp directory
    clock,      \* int(time.time()), counted from the start of the service
    vad,        \* locals of one split_audio_vad call (SpecVad)
    wh,         \* locals of one split_audio_whisper call (SpecWhisper)
    srv         \* globals of tts_server.py and its requests (SpecTtsServer)

vars == <<audio, req, dirs, wavs, se_files, outputs, tmp, clock, vad, wh, srv>>
pipeVars == <<srv, audio, req, dirs, wavs, se_files, outputs, tmp, clock>>

(***************************************************************************)
(* split_audio_vad, lines 145-166: the split of the speech-only track.     *)
(***************************************************************************)
DefaultSplitSeconds == 10

\* mutant of NumSplits: int() without np.round
NumSplits_Truncated(audio_dur, split_seconds) == FInt(FDiv(audio_dur, split_seconds))

\* num_splits = int(np.round(audio_dur / split_seconds))
NumSplits(audio_dur, split_seconds) == NpRound(FDiv(audio_dur, split_seconds))

\* mutant of SplitsOk: the assertion is dropped
SplitsOk_Always(num_splits) == TRUE

\* line 148: assert num_splits > 0, 'input audio is too short'
SplitsOk(num_splits) == num_splits > 0

\* interval = audio_dur / num_splits
Interval(audio_dur, num_splits) == FDiv(audio_dur, num_splits)

\* end_time of iteration i
EndTime(start_time, interval, audio_dur, i, num_splits) ==
    IF i = num_splits - 1 THEN audio_dur
    ELSE FMin(FAdd(start_time, interval), audio_dur)

\* audio_active[int(start_time * 1000) : int(end_time * 1000)]; a slice is
\* clamped to the length of the track
AudioSlice(start_time, end_time, len) ==
    <<Min(FInt(FMul(start_time, 1000)), len), Min(FInt(FMul(end_time, 1000)), len)>>

SplitSecondsSet == {1, 2, DefaultSplitSeconds}
VadInputs ==
    {<<500 * u + j, l>> : u \in 0..MaxHalfSeconds, j \in 0..MaxOffsetMs, l \in SplitSecondsSet}

VadIdle ==
    [pc |-> "off", audio_ms |-> 0, split_seconds |-> DefaultSplitSeconds,
     audio_dur |-> FZero, num_splits |-> 0, interval |-> FZero,
     start_time |-> FZero, count |-> 0, error |-> "", files |-> << >>]

\* lines 102-149: load, detect speech, concatenate, count the splits
VadStart ==
    /\ vad.pc = "start"
    /\ LET dur == FloatOfMs(vad.audio_ms)
           n == NumSplits(dur, vad.split_seconds)
       IN  IF SplitsOk(n)
           THEN vad' = [vad EXCEPT !.pc = "loop", !.audio_dur = dur, !.num_splits = n,
                                   !.interval = Interval(dur, n)]
           ELSE vad' = [vad EXCEPT !.pc = "failed", !.audio_dur = dur, !.num_splits = n,
                                   !.error = "assert"]
    /\ UNCHANGED <<pipeVars, wh>>

\* lines 151-166: one iteration, the export succeeds
VadExport ==
    /\ vad.pc = "loop"
    /\ vad.count < vad.num_splits
    /\ LET end_time == EndTime(vad.start_time, vad.interval, vad.audio_dur,
                               vad.count, vad.num_splits)
           cut == AudioSlice(vad.start_time, end_time, vad.audio_ms)
       IN  vad' = [vad EXCEPT !.files = Append(@, [seg |-> vad.count, from |-> cut[1],
                                                   to |-> cut[2], complete |-> TRUE]),
                              !.start_time = end_time,
                              !.count = @ + 1]
    /\ UNCHANGED <<pipeVars, wh>>

\* lines 158-164: the export raises; the file is left as far as it was written
VadExportFail ==
    /\ vad.pc = "loop"
    /\ vad.count < vad.num_splits
    /\ LET end_time == EndTime(vad.start_time, vad.interval, vad.audio_dur,
                               vad.count, vad.num_splits)
           cut == AudioSlice(vad.start_time, end_time, vad.audio_ms)
       IN  vad' = [vad EXCEPT !.files = Append(@, [seg |-> vad.count, from |-> cut[1],
                                                   to |-> cut[2], complete |-> FALSE]),
                              !.pc = "failed", !.error = "export"]
    /\ UNCHANGED <<pipeVars, wh>>

\* line 167
VadReturn ==
    /\ vad.pc = "loop"
    /\ vad.count = vad.num_splits
    /\ vad' = [vad EXCEPT !.pc = "returned"]
    /\ UNCHANGED <<pipeVars, wh>>

(***************************************************************************)
(* main.py and get_se: the embedding pipeline under concurrent requests.   *)
(***************************************************************************)
\* main.py 45-49
PERSONA_VOICES ==
    [Balthazar |-> "demo_speaker0.mp3", Melchior |-> "demo_speaker1.mp3",
     Caspar |-> "demo_speaker2.mp3"]
Personas == DOMAIN PERSONA_VOICES
RefFiles == {PERSONA_VOICES[p] : p \in Personas}

\* perform_self_test, main.py 101: the start-up request
SelfTestPersona == "Caspar"
SelfTest == 0
Req == 0..NumReq

\* vc_model.version, se_extractor.py 196: one converter per process
Version == "v2"

\* os.path.basename(audio_path).rsplit('.', 1)[0]
BaseName(f) == SubSeq(f, 1, Len(f) - 4)

\* What the three reference files hold is the environment's choice.  The
\* self-test has to pass for the service to run, so its file decodes and
\* holds enough speech (18 s).  demo_speaker1 holds too little speech (3 s);
\* demo_speaker0 is a second good clip (12 s), cannot be decoded, or is the
\* recording of demo_speaker2 under another name.
\* The decoded samples of a clip are named by the leading base64 characters
\* of their SHA-256 digest: s0 has no '/' among them, s1 has one at
\* position 17, s2 has one at position 2.
s0 == <<"K">>
s1 == [i \in 1..17 |-> IF i = 17 THEN "/" ELSE "L"]
s2 == <<"M", "/">>
GoodClip(samples, ms) == [decodable |-> TRUE, samples |-> samples, speech_ms |-> ms]
BadClip == [decodable |-> FALSE, samples |-> << >>, speech_ms |-> 0]
AudioChoices ==
    {[f \in RefFiles |->
        IF f = "demo_speaker2.mp3" THEN GoodClip(s2, 18000)
        ELSE IF f = "demo_speaker1.mp3" THEN GoodClip(s1, 3000)
        ELSE first] : first \in {GoodClip(s0, 12000), BadClip, GoodClip(s2, 18000)}}

\* mutant of LoadArray: the bytes hashed begin with the file's name
LoadArray_WithName(f) == <<f>> \o audio[f].samples

\* librosa.load(audio_path, sr=None, mono=True), line 177: the decoded samples
LoadArray(f) == audio[f].samples

\* lines 179-184: base64 of the SHA-256 digest of the array's bytes, 44
\* characters for 32 bytes.  The digest function is stood for by one that
\* is injective on the arrays used here: the text begins with the
\* characters naming the array and is filled up with 'A' and the '=' pad.
Base64Length == 44
Sha256Base64(array) ==
    [i \in 1..Base64Length |->
        IF i <= Len(array) THEN array[i] ELSE IF i = Base64Length THEN "=" ELSE "A"]

\* line 185: .replace('/', '_^')
RECURSIVE ReplaceSlash(_)
ReplaceSlash(t) ==
    IF t = << >> THEN << >>
    ELSE (IF Head(t) = "/" THEN <<"_", "^">> ELSE <<Head(t)>>) \o ReplaceSlash(Tail(t))

\* line 185: base64_value.decode('utf-8')[:16].replace('/', '_^')
IdentityPrefix == 16
Identity(array) == ReplaceSlash(SubSeq(Sha256Base64(array), 1, IdentityPrefix))

\* mutant of hash_numpy_array: the exception is swallowed and the digest of
\* an empty array returned
hash_numpy_array_Swallow(f) == [ok |-> TRUE, value |-> Identity(LoadArray(f))]

\* hash_numpy_array, 174-189: the identity of the decoded samples, or the
\* exception of librosa.load re-raised
hash_numpy_array(f) ==
    IF audio[f].decodable
    THEN [ok |-> TRUE, value |-> Identity(LoadArray(f))]
    ELSE [ok |-> FALSE, value |-> << >>]

\* get_se 202: audio_name
AudioName(f, h) == <<BaseName(f), Version, h>>
\* get_se 203: se_path
SePath(audio_name) == <<audio_name, "se.pth">>

NoFile == [complete |-> FALSE, data |-> {}, exists |-> FALSE]
FileAt(path) == IF path \in DOMAIN se_files THEN se_files[path] ELSE NoFile
WavsOf(d) == IF d \in DOMAIN wavs THEN wavs[d] ELSE << >>

ReqIdle ==
    [pc |-> "idle", persona |-> "", file |-> "", audio_name |-> << >>,
     num_splits |-> 0, count |-> 0, audio_segs |-> {}, se |-> {},
     hit |-> FALSE, segmented |-> FALSE, extracted |-> FALSE, stored |-> FALSE,
     failed_at |-> "", vad |-> TRUE, kept |-> {},
     hash_calls |-> 0, split_calls |-> 0, extract_calls |-> 0,
     http |-> "", status |-> 0, base |-> << >>, final |-> << >>, cleanup |-> "",
     swept |-> FALSE, spans |-> << >>, streamed |-> ""]

\* mutant of Fail: the error is caught and an empty embedding returned
Fail_DefaultEmbedding(r, stage) == [req EXCEPT ![r].pc = "done", ![r].se = {}]

\* get_se 225-229: the exception of a stage is logged and re-raised
Fail(r, stage) == [req EXCEPT ![r].pc = "failed", ![r].failed_at = stage]

\* the stages of get_se, which run on a worker thread
OnWorkerThread(r) ==
    req[r].pc \in {"hash", "split", "export", "exporting", "whisper", "extract", "save", "saving"}

\* mutant of LoopBlockedBy: get_se is called in the coroutine itself
LoopBlockedBy_Synchronous(q) == q # SelfTest /\ OnWorkerThread(q)

\* main.py 192-198: the handler awaits asyncio.to_thread(get_se, ...); the
\* coroutine is suspended and the event loop is free for other requests
LoopBlockedBy(q) == FALSE

\* the event loop can run the handler of request r
LoopFree(r) == \A q \in Req \ {r} : ~LoopBlockedBy(q)

\* synthesize_speech, main.py 150-198: validate the persona, create the
\* persona's directories, hand get_se to a worker thread.  No lock is taken
\* and no cache is consulted.
Accept(r, p) ==
    LET f == PERSONA_VOICES[p]
        h == hash_numpy_array(f)
    IN  /\ LoopFree(r)
        /\ req' = [req EXCEPT ![r].pc = "hash", ![r].persona = p, ![r].file = f,
                       ![r].hit = (h.ok /\ FileAt(SePath(AudioName(f, h.value))).exists)]
        /\ dirs' = dirs \cup {<<BaseName(f)>>}

\* The embedding pipeline seen on its own.  Request 0 is the self-test of
\* the lifespan hook; the service accepts requests only after it passed, so
\* after its get_se call returned.
Call(r) ==
    /\ req[r].pc = "idle"
    /\ IF r = SelfTest THEN TRUE ELSE req[SelfTest].pc = "done"
    /\ \E p \in Personas :
        /\ r = SelfTest => p = SelfTestPersona
        /\ Accept(r, p)
    /\ UNCHANGED <<srv, audio, outputs, tmp, clock, wavs, se_files, vad, wh>>

\* get_se 202-205
Identify(r) ==
    /\ req[r].pc = "hash"
    /\ LET h == hash_numpy_array(req[r].file)
       IN  IF h.ok
           THEN req' = [req EXCEPT ![r].pc = "split", ![r].hash_calls = @ + 1,
                                   ![r].audio_name = AudioName(req[r].file, h.value)]
           ELSE req' = [Fail(r, "hash") EXCEPT ![r].hash_calls = @ + 1]
    /\ UNCHANGED <<srv, audio, outputs, tmp, clock, dirs, wavs, se_files, vad, wh>>

\* get_se 208 -> split_audio_vad 102-149 (vad=True, split_seconds defaulted)
VadBegin(r) ==
    /\ req[r].pc = "split"
    /\ req[r].vad
    /\ LET f == req[r].file
           d == req[r].audio_name
           n == NumSplits(FloatOfMs(audio[f].speech_ms), DefaultSplitSeconds)
       IN  IF ~audio[f].decodable
           THEN /\ req' = [Fail(r, "split") EXCEPT ![r].split_calls = @ + 1]
                /\ UNCHANGED <<dirs, wavs>>
           ELSE /\ dirs' = dirs \cup {d}
                /\ wavs' = IF d \in DOMAIN wavs THEN wavs ELSE (d :> << >>) @@ wavs
                /\ IF SplitsOk(n)
                   THEN req' = [req EXCEPT ![r].pc = "export", ![r].num_splits = n,
                                           ![r].count = 0, ![r].segmented = TRUE,
                                           ![r].split_calls = @ + 1]
                   ELSE req' = [Fail(r, "split") EXCEPT ![r].split_calls = @ + 1]
    /\ UNCHANGED <<srv, audio, outputs, tmp, clock, se_files, vad, wh>>

\* mutant of SegName: every run numbers its files from a base of its own
SegName_PerRun(r, i) == i + 10 * (r + 1)

\* split_audio_vad 155, split_audio_whisper 76: the file is named
\* {audio_name}_seg{index}.wav after the run's segment index alone
SegName(r, i) == i

\* split_audio_vad 155-159: export opens the segment file for writing; it
\* raises when the folder is not there
ExportOpen(r) ==
    /\ req[r].pc = "export"
    /\ req[r].count < req[r].num_splits
    /\ LET d == req[r].audio_name
       IN  IF d \in DOMAIN wavs
           THEN /\ wavs' = [wavs EXCEPT ![d] = (SegName(r, req[r].count) :> "partial") @@ @]
                /\ req' = [req EXCEPT ![r].pc = "exporting"]
           ELSE /\ wavs' = wavs
                /\ req' = Fail(r, "split")
    /\ UNCHANGED <<srv, audio, outputs, tmp, clock, dirs, se_files, vad, wh>>

\* split_audio_vad 159-166: the export completes; a file that was unlinked
\* while it was written does not come back
ExportClose(r) ==
    /\ req[r].pc = "exporting"
    /\ LET d == req[r].audio_name
       IN  wavs' = IF d \in DOMAIN wavs /\ SegName(r, req[r].count) \in DOMAIN wavs[d]
                   THEN [wavs EXCEPT ![d] = (SegName(r, req[r].count) :> "full") @@ @]
                   ELSE wavs
    /\ req' = [req EXCEPT ![r].pc = "export", ![r].kept = @ \cup {SegName(r, req[r].count)},
                           ![r].count = @ + 1]
    /\ UNCHANGED <<srv, audio, outputs, tmp, clock, dirs, se_files, vad, wh>>

\* split_audio_vad 161-164, 168-172: the export raises
ExportFail(r) ==
    /\ req[r].pc = "exporting"
    /\ req' = Fail(r, "split")
    /\ UNCHANGED <<srv, audio, outputs, tmp, clock, dirs, wavs, se_files, vad, wh>>

\* split_audio_vad 167, get_se 212-217: return the folder, list its files
Glob(r) ==
    /\ req[r].pc = "export"
    /\ req[r].count = req[r].num_splits
    /\ LET segs == DOMAIN WavsOf(req[r].audio_name)
       IN  IF segs = {}
           THEN req' = Fail(r, "glob")
           ELSE req' = [req EXCEPT ![r].pc = "extract", ![r].audio_segs = segs]
    /\ UNCHANGED <<srv, audio, outputs, tmp, clock, dirs, wavs, se_files, vad, wh>>

(***************************************************************************)
(* vc_model.extract_se(audio_segs, se_save_path=se_path), get_se 222.      *)
(* ToneColorConverter lives in openvoice/api.py; its behaviour is taken    *)
(* from the design document, sections 4.3, 4.4 and 7: read every segment,  *)
(* compute one embedding, write it to a temporary path and rename it to    *)
(* the designated path; a model error or a write error propagates.         *)
(***************************************************************************)
\* mutant of SaveTarget: the embedding is written in place at se_path
SaveTarget_InPlace(r, se_path) == se_path

\* the path extract_se writes the embedding to before the rename
SaveTarget(r, se_path) == <<se_path[1], "se.pth.tmp", r>>

\* read the listed segment files and compute the embedding from them; a
\* listed file that is no longer there is an error
ExtractSe(r) ==
    /\ req[r].pc = "extract"
    /\ LET w == WavsOf(req[r].audio_name)
       IN  IF req[r].audio_segs \subseteq DOMAIN w
           THEN req' = [req EXCEPT ![r].pc = "save", ![r].extracted = TRUE,
                                   ![r].extract_calls = @ + 1,
                                   ![r].se = {<<i, w[i]>> : i \in req[r].audio_segs}]
           ELSE req' = [Fail(r, "extract") EXCEPT ![r].extracted = TRUE,
                                                  ![r].extract_calls = @ + 1]
    /\ UNCHANGED <<srv, audio, outputs, tmp, clock, dirs, wavs, se_files, vad, wh>>

\* ModelError: the embedding computation throws
ExtractFail(r) ==
    /\ req[r].pc = "extract"
    /\ req' = [Fail(r, "extract") EXCEPT ![r].extracted = TRUE, ![r].extract_calls = @ + 1]
    /\ UNCHANGED <<srv, audio, outputs, tmp, clock, dirs, wavs, se_files, vad, wh>>

\* the write of the embedding begins; it fails when the directory is not there
SaveOpen(r) ==
    /\ req[r].pc = "save"
    /\ LET t == SaveTarget(r, SePath(req[r].audio_name))
       IN  IF req[r].audio_name \in dirs
           THEN /\ se_files' = (t :> [complete |-> FALSE, data |-> {}, exists |-> TRUE])
                                    @@ se_files
                /\ req' = [req EXCEPT ![r].pc = "saving"]
           ELSE /\ se_files' = se_files
                /\ req' = Fail(r, "save")
    /\ UNCHANGED <<srv, audio, outputs, tmp, clock, dirs, wavs, vad, wh>>

\* the write completes and the file is renamed to se_path; get_se returns
\* (se, audio_name).  The rename fails when the file written is gone.
SaveCommit(r) ==
    /\ req[r].pc = "saving"
    /\ LET final == SePath(req[r].audio_name)
           t == SaveTarget(r, final)
           whole == [complete |-> TRUE, data |-> req[r].se, exists |-> TRUE]
       IN  IF t \in DOMAIN se_files
           THEN /\ se_files' = [q \in (DOMAIN se_files \ {t}) \cup {final} |->
                                     IF q = final THEN whole ELSE se_files[q]]
                /\ req' = [req EXCEPT ![r].pc = "done", ![r].stored = TRUE]
           ELSE /\ se_files' = se_files
                /\ req' = Fail(r, "save")
    /\ UNCHANGED <<srv, audio, outputs, tmp, clock, dirs, wavs, vad, wh>>

\* CacheIOError: the write fails part-way; what was written stays where it was
SaveFail(r) ==
    /\ req[r].pc = "saving"
    /\ req' = Fail(r, "save")
    /\ UNCHANGED <<srv, audio, outputs, tmp, clock, dirs, wavs, se_files, vad, wh>>

(***************************************************************************)
(* synthesize_speech after get_se, main.py 200-287: the base speech, the   *)
(* conversion, the response and the clean-up.                              *)
(***************************************************************************)
\* main.py 207 and 224: the output paths carry the persona and the second
BasePath(persona, t) == <<"base", persona, t>>
FinalPath(persona, t) == <<"final", persona, t>>

\* mutant of RemoveFile: the whole output directory is emptied
RemoveFile_All(path) == << >>

\* if os.path.exists(path): os.remove(path), main.py 242-243, 271
RemoveFile(path) == [q \in DOMAIN outputs \ {path} |-> outputs[q]]

\* main.py 278: HTTPException(status_code=500, detail=str(e))
ErrorStatus == 500
\* the status of a returned response
OkStatus == 200

\* mutant of ResponseStatus: the exception is swallowed and a response returned
ResponseStatus_AlwaysOk(raised) == OkStatus

\* main.py 265 and 276-278: what the caller gets, by whether the handler's
\* try block raised
ResponseStatus(raised) == IF raised THEN ErrorStatus ELSE OkStatus

\* The whole handler.  perform_self_test (main.py 95-112) calls
\* synthesize_speech and the service starts only if it returned a response.
ServiceCall(r) ==
    /\ req[r].pc = "idle"
    /\ r <= MaxServiceReq
    /\ IF r = SelfTest THEN TRUE ELSE req[SelfTest].status = OkStatus
    /\ \E p \in Personas :
        /\ r = SelfTest => p = SelfTestPersona
        /\ Accept(r, p)
    /\ UNCHANGED <<srv, audio, outputs, tmp, clock, wavs, se_files, vad, wh>>

\* main.py 200-204, 276-278: get_se raised; the error is logged, re-raised
\* and turned into HTTPException(status_code=500)
HandlerRaise(r) ==
    /\ req[r].pc = "failed"
    /\ req[r].http = ""
    /\ req' = [req EXCEPT ![r].http = "responded", ![r].status = ResponseStatus(TRUE)]
    /\ UNCHANGED <<srv, audio, outputs, tmp, clock, dirs, wavs, se_files, vad, wh>>

\* main.py 207-218: model.tts_to_file writes the base speech
TtsToFile(r) ==
    /\ req[r].pc = "done"
    /\ req[r].http = ""
    /\ LET path == BasePath(req[r].persona, clock)
       IN  /\ outputs' = (path :> r) @@ outputs
           /\ req' = [req EXCEPT ![r].http = "base", ![r].base = path]
    /\ UNCHANGED <<srv, audio, tmp, clock, dirs, wavs, se_files, vad, wh>>

\* main.py 219-221, 276-278: tts_to_file raises
TtsFail(r) ==
    /\ req[r].pc = "done"
    /\ req[r].http = ""
    /\ req' = [req EXCEPT ![r].http = "responded", ![r].status = ResponseStatus(TRUE),
                           ![r].base = BasePath(req[r].persona, clock)]
    /\ UNCHANGED <<srv, audio, outputs, tmp, clock, dirs, wavs, se_files, vad, wh>>

\* main.py 224-243: the converter reads the base file and writes the final
\* file; the base file is removed in the finally clause.  Without the base
\* file the conversion raises.
Convert(r) ==
    /\ req[r].http = "base"
    /\ LET path == FinalPath(req[r].persona, clock)
       IN  IF req[r].base \in DOMAIN outputs
           THEN /\ outputs' = [q \in (DOMAIN outputs \ {req[r].base}) \cup {path} |->
                                   IF q = path THEN outputs[req[r].base] ELSE outputs[q]]
                /\ req' = [req EXCEPT ![r].http = "final", ![r].final = path]
           ELSE /\ outputs' = RemoveFile(req[r].base)
                /\ req' = [req EXCEPT ![r].http = "responded", ![r].status = ResponseStatus(TRUE),
                                       ![r].final = path]
    /\ UNCHANGED <<srv, audio, tmp, clock, dirs, wavs, se_files, vad, wh>>

\* main.py 237-243, 276-278: the conversion raises; finally removes the base file
ConvertFail(r) ==
    /\ req[r].http = "base"
    /\ outputs' = RemoveFile(req[r].base)
    /\ req' = [req EXCEPT ![r].http = "responded", ![r].status = ResponseStatus(TRUE),
                           ![r].final = FinalPath(req[r].persona, clock)]
    /\ UNCHANGED <<srv, audio, tmp, clock, dirs, wavs, se_files, vad, wh>>

\* main.py 249-265: the streaming response is built, the clean-up task is
\* created and the response returned
Respond(r) ==
    /\ req[r].http = "final"
    /\ req' = [req EXCEPT ![r].http = "responded", ![r].status = ResponseStatus(FALSE),
                           ![r].cleanup = "scheduled"]
    /\ UNCHANGED <<srv, audio, outputs, tmp, clock, dirs, wavs, se_files, vad, wh>>

\* main.py 267-278: building the response raises; the final file is removed
RespondFail(r) ==
    /\ req[r].http = "final"
    /\ outputs' = RemoveFile(req[r].final)
    /\ req' = [req EXCEPT ![r].http = "responded", ![r].status = ResponseStatus(TRUE)]
    /\ UNCHANGED <<srv, audio, tmp, clock, dirs, wavs, se_files, vad, wh>>

\* main.py 263, 280-287: asyncio.to_thread calls cleanup_files in a worker
\* thread.  cleanup_files is a coroutine function: the call creates a
\* coroutine object that nothing awaits, and its body, the removal of the
\* final file, does not run.
CleanupTask(r) ==
    /\ req[r].cleanup = "scheduled"
    /\ req' = [req EXCEPT ![r].cleanup = "returned"]
    /\ UNCHANGED <<srv, audio, outputs, tmp, clock, dirs, wavs, se_files, vad, wh>>

\* main.py 250-259: after the handler returned, the server iterates
\* read_in_chunks, which opens the final file and sends what is in it; the
\* self-test (main.py 105) drops the response it gets
Stream(r) ==
    /\ r # SelfTest
    /\ req[r].http = "responded"
    /\ req[r].status = OkStatus
    /\ req[r].streamed = ""
    /\ req' = [req EXCEPT ![r].streamed =
                   IF req[r].final \notin DOMAIN outputs THEN "missing"
                   ELSE IF outputs[req[r].final] = r THEN "own" ELSE "other"]
    /\ UNCHANGED <<srv, audio, outputs, tmp, clock, dirs, wavs, se_files, vad, wh>>

\* time.time() moves on by a second
Tick ==
    /\ clock < MaxClock
    /\ clock' = clock + 1
    /\ UNCHANGED <<srv, audio, req, dirs, wavs, se_files, outputs, tmp, vad, wh>>

(***************************************************************************)
(* The retention policy of the design document, section 6: an external     *)
(* janitor may delete a cache subdirectory at any time.                    *)
(***************************************************************************)
\* the requests that are between the creation of their folder and their
\* last read or write under it
InProgress(d) ==
    {r \in Req : req[r].audio_name = d
                   /\ req[r].pc \in {"export", "exporting", "extract", "save", "saving"}}

\* rm -r processed/<audio_name>
Janitor(d) ==
    /\ d \in dirs
    /\ d \in DOMAIN wavs
    /\ dirs' = dirs \ {d}
    /\ wavs' = [q \in DOMAIN wavs \ {d} |-> wavs[q]]
    /\ se_files' = [q \in {x \in DOMAIN se_files : x[1] # d} |-> se_files[q]]
    /\ req' = [r \in Req |-> IF r \in InProgress(d) THEN [req[r] EXCEPT !.swept = TRUE]
                              ELSE req[r]]
    /\ UNCHANGED <<srv, audio, outputs, tmp, clock, vad, wh>>

(***************************************************************************)
(* tts_server.py: the temporary audio files and their time-based clean-up. *)
(***************************************************************************)
TtsAudioIds == {"a1"}

\* tts_server.py 375-381: a synthesis saves tts_<audio_id>.wav in the temp directory
TtsSaveFile(id) ==
    /\ id \notin DOMAIN tmp
    /\ tmp' = (id :> "fresh") @@ tmp
    /\ srv' = [srv EXCEPT !.aged = @ \ {id}]
    /\ UNCHANGED <<audio, req, dirs, wavs, se_files, outputs, clock, vad, wh>>

\* an hour passes over a file
TtsFileAges(id) ==
    /\ id \in DOMAIN tmp
    /\ tmp[id] = "fresh"
    /\ tmp' = [tmp EXCEPT ![id] = "old"]
    /\ srv' = [srv EXCEPT !.aged = @ \cup {id}]
    /\ UNCHANGED <<audio, req, dirs, wavs, se_files, outputs, clock, vad, wh>>

\* mutant of Expired: the age of the file is not looked at
Expired_Any(age) == TRUE

\* tts_server.py 255, 260: os.path.getmtime(file_path) < current_time - 3600
Expired(age) == age = "old"

\* the temp directory after the loop of lines 258-264
CleanedTmp == [id \in {i \in DOMAIN tmp : ~Expired(tmp[i])} |-> tmp[id]]

\* tts_server.py 249-270: remove every tts_*.wav of the temp directory
\* that is older than an hour
cleanup_old_audio_files ==
    /\ \E id \in DOMAIN tmp : Expired(tmp[id])
    /\ tmp' = CleanedTmp
    /\ UNCHANGED <<srv, audio, req, dirs, wavs, se_files, outputs, clock, vad, wh>>

(***************************************************************************)
(* tts_server.py: model initialization, /health, /synthesize,              *)
(* /synthesize-direct, /audio/{audio_id} and /cleanup.  tts_model is kept  *)
(* as "is not None"; initialization_error as "None" or the kind of message.*)
(***************************************************************************)
SynthReq == 1..MaxSynth

\* str(uuid.uuid4()), line 375: the audio ids of this server's requests
AudioIds == {"a1", "a2"}

\* tts_server.py 365: HTTPException(status_code=503)
Unavailable == 503
\* tts_server.py 449, 508: HTTPException(status_code=500)
SynthesisFailed == 500
\* tts_server.py 518: HTTPException(status_code=404)
NotFound == 404

SynthIdle ==
    [pc |-> "idle", save_file |-> FALSE, audio_id |-> "", generated |-> FALSE,
     wrote |-> FALSE, raised |-> "", code |-> 0]

\* tts_server.py 105-125: the module's globals after import
SrvOff ==
    [available |-> TRUE, tts_model |-> FALSE, initialization_stage |-> "starting",
     initialization_error |-> "None", init |-> "off", result |-> "none",
     thread |-> FALSE, aged |-> {}, issued |-> {}, health |-> << >>, got |-> {},
     not_found |-> {},
     synth |-> [k \in SynthReq |-> SynthIdle]]

\* initialize_model: an except clause sets the stage and the message and
\* returns False (172-180, 219-246)
InitFailed(message) ==
    [srv EXCEPT !.initialization_stage = "failed", !.initialization_error = message,
                !.init = "returned", !.result = "False"]

\* startup_event 292 -> initialize_model 165-169
InitializeStart ==
    /\ srv.init = "off"
    /\ srv' = [srv EXCEPT !.init = "checking", !.initialization_stage = "checking_dependencies"]
    /\ UNCHANGED <<audio, req, dirs, wavs, se_files, outputs, tmp, clock, vad, wh>>

\* initialize_model 172-183
InitCheck ==
    /\ srv.init = "checking"
    /\ srv' = IF srv.available
              THEN [srv EXCEPT !.init = "device", !.initialization_stage = "configuring_device"]
              ELSE InitFailed("not available")
    /\ UNCHANGED <<audio, req, dirs, wavs, se_files, outputs, tmp, clock, vad, wh>>

\* initialize_model 185-199: the device is chosen
InitDevice ==
    /\ srv.init = "device"
    /\ srv' = [srv EXCEPT !.init = "load", !.initialization_stage = "downloading_model"]
    /\ UNCHANGED <<audio, req, dirs, wavs, se_files, outputs, tmp, clock, vad, wh>>

\* initialize_model 185-195, 226-240: a torch.cuda call raises RuntimeError
InitDeviceFail ==
    /\ srv.init = "device"
    /\ srv' = InitFailed("CUDA error")
    /\ UNCHANGED <<audio, req, dirs, wavs, se_files, outputs, tmp, clock, vad, wh>>

\* initialize_model 202: tts_model = ChatterboxTTS.from_pretrained(device=device)
InitLoad ==
    /\ srv.init = "load"
    /\ srv' = [srv EXCEPT !.init = "voice", !.tts_model = TRUE]
    /\ UNCHANGED <<audio, req, dirs, wavs, se_files, outputs, tmp, clock, vad, wh>>

\* initialize_model 202, 219-246: from_pretrained raises
InitLoadFail ==
    /\ srv.init = "load"
    /\ \E message \in {"Import error", "Runtime error", "Unexpected error"} :
          srv' = InitFailed(message)
    /\ UNCHANGED <<audio, req, dirs, wavs, se_files, outputs, tmp, clock, vad, wh>>

\* initialize_model 204-217: the voice file is looked up under the working
\* directory, the stage becomes "ready", True is returned
InitVoice ==
    /\ srv.init = "voice"
    /\ srv' = [srv EXCEPT !.init = "returned", !.initialization_stage = "ready",
                          !.result = "True"]
    /\ UNCHANGED <<audio, req, dirs, wavs, se_files, outputs, tmp, clock, vad, wh>>

\* initialize_model 205, 241-246: os.getcwd() raises OSError when the working
\* directory is gone; the model has been assigned by then
InitVoiceFail ==
    /\ srv.init = "voice"
    /\ srv' = InitFailed("Unexpected error")
    /\ UNCHANGED <<audio, req, dirs, wavs, se_files, outputs, tmp, clock, vad, wh>>

\* startup_event 293-308: after a successful initialization the clean-up
\* thread is started and the old files are removed once
StartupDone ==
    /\ srv.init = "returned"
    /\ srv' = [srv EXCEPT !.init = "up", !.thread = (srv.result = "True")]
    /\ tmp' = IF srv.result = "True" THEN CleanedTmp ELSE tmp
    /\ UNCHANGED <<audio, req, dirs, wavs, se_files, outputs, clock, vad, wh>>

\* the start-up hook has completed and the server answers requests; the
\* hook calls initialize_model synchronously, so no handler runs before
Serving == srv.init = "up"

\* mutant of HealthStatus: only the model is looked at
HealthStatus_ModelOnly(model, stage) == IF model THEN "healthy" ELSE "unhealthy"

\* health_check 314-326: the status field of the body
HealthStatus(model, stage) ==
    IF model THEN "healthy"
    ELSE IF stage = "failed" THEN "failed"
    ELSE IF stage \in {"starting", "checking_dependencies", "configuring_device",
                       "downloading_model"}
         THEN "initializing"
         ELSE "unhealthy"

\* health_check 328-336: the handler returns a HealthResponse, sent with 200
health_check ==
    [code |-> OkStatus,
     status |-> HealthStatus(srv.tts_model, srv.initialization_stage),
     model_loaded |-> srv.tts_model,
     initialization_stage |-> srv.initialization_stage,
     error_message |-> srv.initialization_error]

\* GET /health
HealthCheck ==
    /\ srv.health # health_check
    /\ srv' = [srv EXCEPT !.health = health_check]
    /\ UNCHANGED <<audio, req, dirs, wavs, se_files, outputs, tmp, clock, vad, wh>>

\* mutant of SynthStatus: every exception becomes a 500
SynthStatus_WrapAll(exc) == SynthesisFailed

\* _synthesize_speech_internal 500-508: an HTTPException is re-raised as
\* it is, any other exception becomes HTTPException(500)
SynthStatus(exc) == IF exc.http THEN exc.code ELSE SynthesisFailed

\* the request ends with an exception
SynthRaise(k, exc) ==
    [srv EXCEPT !.synth[k].pc = "done",
                !.synth[k].raised = IF exc.http THEN "HTTPException" ELSE "Exception",
                !.synth[k].code = SynthStatus(exc)]

\* the audio ids not given out yet: uuid4 does not repeat
FreeIds == {id \in AudioIds : id \notin DOMAIN tmp /\ id \notin srv.issued
                                  /\ \A k \in SynthReq : srv.synth[k].audio_id # id}

\* POST /synthesize (save_file) and POST /synthesize-direct,
\* _synthesize_speech_internal 351-381: the model check, the audio id
SynthCall(k) ==
    /\ Serving
    /\ srv.synth[k].pc = "idle"
    /\ \A j \in SynthReq : j < k => srv.synth[j].pc # "idle"
    /\ IF ~srv.tts_model
       THEN \E save_file \in BOOLEAN :
              srv' = [SynthRaise(k, [http |-> TRUE, code |-> Unavailable])
                          EXCEPT !.synth[k].save_file = save_file]
       ELSE \/ srv' = [srv EXCEPT !.synth[k].pc = "generate", !.synth[k].audio_id = "direct"]
            \/ \E id \in FreeIds :
                  srv' = [srv EXCEPT !.synth[k].pc = "generate", !.synth[k].save_file = TRUE,
                                     !.synth[k].audio_id = id]
    /\ UNCHANGED <<audio, req, dirs, wavs, se_files, outputs, tmp, clock, vad, wh>>

\* _synthesize_speech_internal 411-467: tts_model.generate, then
\* torchaudio.save to the temp file or to a buffer
SynthGenerate(k) ==
    /\ srv.synth[k].pc = "generate"
    /\ srv' = [srv EXCEPT !.synth[k].pc = "saved", !.synth[k].generated = TRUE,
                          !.synth[k].wrote = srv.synth[k].save_file,
                          !.aged = IF srv.synth[k].save_file
                                   THEN @ \ {srv.synth[k].audio_id} ELSE @]
    /\ tmp' = IF srv.synth[k].save_file THEN (srv.synth[k].audio_id :> "fresh") @@ tmp
              ELSE tmp
    /\ UNCHANGED <<audio, req, dirs, wavs, se_files, outputs, clock, vad, wh>>

\* _synthesize_speech_internal 411-421, 500-508: generate raises
SynthGenerateFail(k) ==
    /\ srv.synth[k].pc = "generate"
    /\ srv' = SynthRaise(k, [http |-> FALSE, code |-> 0])
    /\ UNCHANGED <<audio, req, dirs, wavs, se_files, outputs, tmp, clock, vad, wh>>

\* _synthesize_speech_internal 431-440, 463-467, 500-508: torchaudio.save raises
SynthSaveFail(k) ==
    /\ srv.synth[k].pc = "generate"
    /\ srv' = [SynthRaise(k, [http |-> FALSE, code |-> 0]) EXCEPT !.synth[k].generated = TRUE]
    /\ UNCHANGED <<audio, req, dirs, wavs, se_files, outputs, tmp, clock, vad, wh>>

\* _synthesize_speech_internal 442-498: the saved file must be there; the
\* response carries the audio id
SynthReturn(k) ==
    /\ srv.synth[k].pc = "saved"
    /\ IF srv.synth[k].save_file /\ srv.synth[k].audio_id \notin DOMAIN tmp
       THEN srv' = SynthRaise(k, [http |-> TRUE, code |-> SynthesisFailed])
       ELSE srv' = [srv EXCEPT !.synth[k].pc = "done", !.synth[k].code = OkStatus,
                               !.issued = IF srv.synth[k].save_file
                                          THEN @ \cup {srv.synth[k].audio_id} ELSE @]
    /\ UNCHANGED <<audio, req, dirs, wavs, se_files, outputs, tmp, clock, vad, wh>>

\* get_audio 512-523: 404 without the file, the file otherwise
get_audio(audio_id) == IF audio_id \in DOMAIN tmp THEN OkStatus ELSE NotFound

\* GET /audio/{audio_id}; got keeps the ids that were asked for, not_found
\* those answered 404 while issued and less than an hour old
GetAudio(audio_id) ==
    /\ Serving
    /\ audio_id \notin srv.got \/ get_audio(audio_id) = NotFound
    /\ srv' = [srv EXCEPT !.got = @ \cup {audio_id},
                          !.not_found = IF /\ get_audio(audio_id) = NotFound
                                           /\ audio_id \in srv.issued
                                           /\ audio_id \notin srv.aged
                                        THEN @ \cup {audio_id} ELSE @]
    /\ UNCHANGED <<audio, req, dirs, wavs, se_files, outputs, tmp, clock, vad, wh>>

\* start_cleanup_thread 273-283: the worker wakes up and cleans
cleanup_worker == srv.thread /\ cleanup_old_audio_files

\* POST /cleanup, 526-534
cleanup_temp_files == Serving /\ cleanup_old_audio_files

(***************************************************************************)
(* split_audio_whisper, lines 25-93.                                       *)
(***************************************************************************)
\* A text is held as its maximal runs of equal characters, <<[ch, n], ...>>,
\* adjacent runs differing in ch; "aa...." is <<[ch |-> "a", n |-> 2], [ch |-> ".", n |-> 4]>>.
RECURSIVE TextLen(_)
TextLen(t) == IF t = << >> THEN 0 ELSE t[1].n + TextLen(Tail(t))

\* w.text.replace('...', ''), line 70: str.replace removes the non-overlapping
\* occurrences found scanning left to right, so a run of n dots loses
\* 3 * (n \div 3) of them and every other character stays
CleanText(t) ==
    [i \in 1..Len(t) |-> IF t[i].ch = "." THEN [t[i] EXCEPT !.n = @ % 3] ELSE t[i]]

\* line 73: audio[int(start_time * 1000) : min(max_len, int(end_time * 1000) + 80)];
\* a slice is clamped to the clip and is empty when it ends before it starts
WhisperSlice(start_time, end_time, max_len) ==
    LET from == Min(FInt(FMul(start_time, 1000)), max_len)
        to == Min(Min(max_len, FInt(FMul(end_time, 1000)) + 80), max_len)
    IN  <<from, Max(from, to)>>

\* mutant of SaveSegment: the lower duration limit is inclusive
SaveSegment_Inclusive(dur_ms, text) ==
    /\ ~BLess(FloatOfMs(dur_ms), FloatOfMs(1500))
    /\ BLess(FloatOfMs(dur_ms), FromNat(20))
    /\ TextLen(text) >= 2
    /\ TextLen(text) < 200

\* lines 79-81: save, on audio_seg.duration_seconds and the cleaned text
SaveSegment(dur_ms, text) ==
    /\ BLess(FloatOfMs(1500), FloatOfMs(dur_ms))
    /\ BLess(FloatOfMs(dur_ms), FromNat(20))
    /\ TextLen(text) >= 2
    /\ TextLen(text) < 200

\* mutant of NextStart: no lookback, the cut starts at the span's start
NextStart_NoLookback(next_start) == next_start

\* line 90: max(0, segments[k+1].start - 0.08)
NextStart(next_start) ==
    IF BLess(FloatOfMs(80), next_start) THEN FSub(next_start, FloatOfMs(80)) ELSE FZero

\* transcriptions: spans in ascending order that do not overlap, with
\* timestamps on a small grid around the duration limits, and texts around
\* the length limits with and without runs of dots
TimePts == {0, 1, 86, 1421, 19920}
TextOf(n, m) ==
    (IF n > 0 THEN <<[ch |-> "a", n |-> n]>> ELSE << >>)
        \o (IF m > 0 THEN <<[ch |-> ".", n |-> m]>> ELSE << >>)
Texts == {TextOf(n, m) : n \in {0, 1, 199}, m \in {0, 3, 4}}
Spans ==
    {[start |-> p[1], end |-> p[2], text |-> t] :
        p \in {q \in TimePts \X TimePts : q[1] < q[2]}, t \in Texts}
Transcriptions ==
    UNION {{sq \in [1..n -> Spans] : \A i \in 1..(n - 1) : sq[i].end <= sq[i + 1].start} :
           n \in 1..MaxSpans}
ClipLengths == {19950, 30000}

WhIdle ==
    [pc |-> "off", segments |-> << >>, max_len |-> 0, k |-> 0, s_ind |-> 0,
     start_time |-> FZero, log |-> << >>, files |-> {}]

\* the get_se call a transcription run works for, if any: its audio_name
\* names the target folder
WhCaller == {r \in Req : req[r].pc = "whisper"}
WhFolder == req[CHOOSE r \in WhCaller : TRUE].audio_name
\* line 76: the file name of the current span
WhFileName == SegName(IF WhCaller = {} THEN 0 ELSE CHOOSE r \in WhCaller : TRUE, wh.s_ind)

\* lines 26-55: load, transcribe, create the folders
WhStart ==
    /\ wh.pc = "start"
    /\ wh' = [wh EXCEPT !.pc = "loop", !.s_ind = 0, !.k = 0]
    /\ IF WhCaller = {}
       THEN UNCHANGED <<dirs, wavs>>
       ELSE /\ dirs' = dirs \cup {WhFolder}
            /\ wavs' = IF WhFolder \in DOMAIN wavs THEN wavs ELSE (WhFolder :> << >>) @@ wavs
    /\ UNCHANGED <<srv, audio, outputs, tmp, clock, req, se_files, vad>>

\* the locals of iteration k
WhCut ==
    LET w == wh.segments[wh.k + 1]
        start_time == IF wh.k = 0 THEN FloatOfMs(w.start) ELSE wh.start_time
        text == CleanText(w.text)
        cut == WhisperSlice(start_time, FloatOfMs(w.end), wh.max_len)
    IN  [from |-> cut[1], to |-> cut[2], text |-> text,
         save |-> SaveSegment(cut[2] - cut[1], text)]

WhAdvance(saved, complete) ==
    LET c == WhCut
    IN  [wh EXCEPT !.log = Append(@, [seg |-> wh.s_ind, from |-> c.from, to |-> c.to,
                                      raw |-> wh.segments[wh.k + 1].text,
                                      saved |-> saved, complete |-> complete]),
                   !.files = IF saved THEN @ \cup {WhFileName} ELSE @,
                   !.start_time = IF wh.k < Len(wh.segments) - 1
                                  THEN NextStart(FloatOfMs(wh.segments[wh.k + 2].start))
                                  ELSE IF wh.k = 0
                                       THEN FloatOfMs(wh.segments[1].start) ELSE @,
                   !.s_ind = @ + 1,
                   !.k = @ + 1]

\* line 86: the folder after the export of the current span, if it is saved
WhExported(content) ==
    IF WhCaller # {} /\ WhCut.save
    THEN [wavs EXCEPT ![WhFolder] = (WhFileName :> content) @@ @]
    ELSE wavs

\* lines 57-92: one iteration; the span is exported or skipped
WhIter ==
    /\ wh.pc = "loop"
    /\ wh.k < Len(wh.segments)
    /\ wh' = WhAdvance(WhCut.save, WhCut.save)
    /\ wavs' = WhExported("full")
    /\ UNCHANGED <<srv, audio, outputs, tmp, clock, req, dirs, se_files, vad>>

\* line 86: the export raises; nothing catches it
WhExportFail ==
    /\ wh.pc = "loop"
    /\ wh.k < Len(wh.segments)
    /\ WhCut.save
    /\ wh' = [WhAdvance(TRUE, FALSE) EXCEPT !.pc = "failed"]
    /\ wavs' = WhExported("partial")
    /\ UNCHANGED <<srv, audio, outputs, tmp, clock, req, dirs, se_files, vad>>

\* line 93
WhReturn ==
    /\ wh.pc = "loop"
    /\ wh.k = Len(wh.segments)
    /\ wh' = [wh EXCEPT !.pc = "returned"]
    /\ UNCHANGED <<pipeVars, vad>>

(***************************************************************************)
(* get_se called as a library function, one call after the other, with     *)
(* either segmentation method (the vad parameter, line 191).               *)
(***************************************************************************)
\* what the transcriber returns for a clip in these calls: one span of
\* three dots, one span of 199 letters, or the two one after the other
GetSeTranscriptions ==
    {<<[start |-> 0, end |-> 1421, text |-> TextOf(0, 3)]>>,
     <<[start |-> 1421, end |-> 19920, text |-> TextOf(199, 0)]>>,
     <<[start |-> 0, end |-> 1421, text |-> TextOf(0, 3)],
       [start |-> 1421, end |-> 19920, text |-> TextOf(199, 0)]>>}
\* len(audio), line 37
GetSeClipLength == 30000

\* get_se 191-199: the caller passes a reference file and the vad flag; a
\* caller that makes its calls one after the other
GetSeCall(r) ==
    /\ req[r].pc = "idle"
    /\ r < MaxCalls
    /\ \A q \in Req : q < r => req[q].pc \in {"done", "failed"}
    /\ \E f \in RefFiles, v \in BOOLEAN :
        LET h == hash_numpy_array(f)
        IN  req' = [req EXCEPT ![r].pc = "hash", ![r].file = f, ![r].vad = v,
                        ![r].hit = (h.ok /\ FileAt(SePath(AudioName(f, h.value))).exists)]
    /\ UNCHANGED <<srv, audio, outputs, tmp, clock, dirs, wavs, se_files, vad, wh>>

\* get_se 210 -> split_audio_whisper (vad=False)
WhBegin(r) ==
    /\ req[r].pc = "split"
    /\ ~req[r].vad
    /\ wh.pc = "off"
    /\ \E sq \in GetSeTranscriptions :
          wh' = [WhIdle EXCEPT !.pc = "start", !.segments = sq, !.max_len = GetSeClipLength]
    /\ req' = [req EXCEPT ![r].pc = "whisper", ![r].segmented = TRUE,
                           ![r].split_calls = @ + 1, ![r].spans = wh'.segments]
    /\ UNCHANGED <<srv, audio, outputs, tmp, clock, dirs, wavs, se_files, vad>>

\* split_audio_whisper 93, get_se 212-217: the folder is returned and listed
WhEnd(r) ==
    /\ req[r].pc = "whisper"
    /\ wh.pc = "returned"
    /\ LET segs == DOMAIN WavsOf(req[r].audio_name)
       IN  IF segs = {}
           THEN req' = [Fail(r, "glob") EXCEPT ![r].kept = wh.files]
           ELSE req' = [req EXCEPT ![r].pc = "extract", ![r].audio_segs = segs,
                                   ![r].kept = wh.files]
    /\ wh' = WhIdle
    /\ UNCHANGED <<srv, audio, outputs, tmp, clock, dirs, wavs, se_files, vad>>

\* the export of line 86 raised: get_se 225-229 re-raises
WhRaise(r) ==
    /\ req[r].pc = "whisper"
    /\ wh.pc = "failed"
    /\ req' = Fail(r, "split")
    /\ wh' = WhIdle
    /\ UNCHANGED <<srv, audio, outputs, tmp, clock, dirs, wavs, se_files, vad>>

(***************************************************************************)
(* Specifications.                                                         *)
(***************************************************************************)
Init ==
    /\ audio \in AudioChoices
    /\ req = [r \in Req |-> ReqIdle]
    /\ dirs = {}
    /\ wavs = << >>
    /\ se_files = << >>
    /\ outputs = << >>
    /\ tmp = << >>
    /\ clock = 0
    /\ vad = VadIdle
    /\ wh = WhIdle
    /\ srv = SrvOff

Next ==
    \/ \E r \in Req :
        \/ Call(r)
        \/ Identify(r)
        \/ VadBegin(r)
        \/ ExportOpen(r)
        \/ ExportClose(r)
        \/ ExportFail(r)
        \/ Glob(r)
        \/ ExtractSe(r)
        \/ ExtractFail(r)
        \/ SaveOpen(r)
        \/ SaveCommit(r)
        \/ SaveFail(r)

Spec == Init /\ [][Next]_vars

\* no request is running while one segmentation call is examined on its own
PipeOff ==
    /\ audio = CHOOSE a \in AudioChoices : \A f \in RefFiles : a[f].decodable
    /\ req = [r \in Req |-> ReqIdle]
    /\ dirs = {}
    /\ wavs = << >>
    /\ se_files = << >>
    /\ outputs = << >>
    /\ tmp = << >>
    /\ clock = 0
    /\ srv = SrvOff

InitVad ==
    /\ PipeOff
    /\ wh = WhIdle
    /\ \E in \in VadInputs :
          vad = [VadIdle EXCEPT !.pc = "start", !.audio_ms = in[1], !.split_seconds = in[2]]

NextVad == VadStart \/ VadExport \/ VadExportFail \/ VadReturn

SpecVad == InitVad /\ [][NextVad]_vars

InitWhisper ==
    /\ PipeOff
    /\ vad = VadIdle
    /\ \E sq \in Transcriptions, len \in ClipLengths :
          wh = [WhIdle EXCEPT !.pc = "start", !.segments = sq, !.max_len = len]

NextWhisper == WhStart \/ WhIter \/ WhExportFail \/ WhReturn

SpecWhisper == InitWhisper /\ [][NextWhisper]_vars

\* the microservice with the whole request handler, and the temporary
\* files of tts_server beside it
NextService ==
    \/ \E r \in Req :
        \/ ServiceCall(r)
        \/ Identify(r)
        \/ VadBegin(r)
        \/ ExportOpen(r)
        \/ ExportClose(r)
        \/ ExportFail(r)
        \/ Glob(r)
        \/ ExtractSe(r)
        \/ ExtractFail(r)
        \/ SaveOpen(r)
        \/ SaveCommit(r)
        \/ SaveFail(r)
        \/ HandlerRaise(r)
        \/ TtsToFile(r)
        \/ TtsFail(r)
        \/ Convert(r)
        \/ ConvertFail(r)
        \/ Respond(r)
        \/ RespondFail(r)
        \/ CleanupTask(r)
        \/ Stream(r)
    \/ Tick
    \/ \E id \in TtsAudioIds : TtsSaveFile(id) \/ TtsFileAges(id)
    \/ cleanup_old_audio_files

SpecService == Init /\ [][NextService]_vars

\* what happens after the handler of request r returned its response: the
\* created task runs and the server streams the body
AfterResponse(r) == CleanupTask(r) \/ Stream(r)

\* the service with a running event loop: a task that was created and a
\* response that was returned are run
SpecServiceFair == SpecService /\ \A r \in Req : WF_vars(AfterResponse(r))

\* Clients that send a request while the responses of earlier ones are
\* still being computed: a request arrives when the get_se calls of the
\* earlier requests have returned, at any point of their synthesis,
\* conversion, response or streaming.
StaggeredCall(r) ==
    /\ req[r].pc = "idle"
    /\ IF r = SelfTest THEN TRUE ELSE req[SelfTest].status = OkStatus
    /\ \A q \in Req : q < r => req[q].pc \in {"done", "failed"}
    /\ \E p \in Personas :
        /\ r = SelfTest => p = SelfTestPersona
        /\ Accept(r, p)
    /\ UNCHANGED <<srv, audio, outputs, tmp, clock, wavs, se_files, vad, wh>>

NextStaggered ==
    \/ \E r \in Req :
        \/ StaggeredCall(r)
        \/ Identify(r)
        \/ VadBegin(r)
        \/ ExportOpen(r)
        \/ ExportClose(r)
        \/ ExportFail(r)
        \/ Glob(r)
        \/ ExtractSe(r)
        \/ ExtractFail(r)
        \/ SaveOpen(r)
        \/ SaveCommit(r)
        \/ SaveFail(r)
        \/ HandlerRaise(r)
        \/ TtsToFile(r)
        \/ TtsFail(r)
        \/ Convert(r)
        \/ ConvertFail(r)
        \/ Respond(r)
        \/ RespondFail(r)
        \/ CleanupTask(r)
        \/ Stream(r)
    \/ Tick

SpecStaggered == Init /\ [][NextStaggered]_vars

\* tts_server.py on its own.  CHATTERBOX_AVAILABLE is fixed by the import
\* (105-116).
InitTtsServer ==
    /\ audio = CHOOSE a \in AudioChoices : \A f \in RefFiles : a[f].decodable
    /\ req = [r \in Req |-> ReqIdle]
    /\ dirs = {}
    /\ wavs = << >>
    /\ se_files = << >>
    /\ outputs = << >>
    /\ tmp = << >>
    /\ clock = 0
    /\ vad = VadIdle
    /\ wh = WhIdle
    /\ \E available \in BOOLEAN : srv = [SrvOff EXCEPT !.available = available]

NextTtsServer ==
    \/ InitializeStart
    \/ InitCheck
    \/ InitDevice
    \/ InitDeviceFail
    \/ InitLoad
    \/ InitLoadFail
    \/ InitVoice
    \/ InitVoiceFail
    \/ StartupDone
    \/ HealthCheck
    \/ \E k \in SynthReq :
        \/ SynthCall(k)
        \/ SynthGenerate(k)
        \/ SynthGenerateFail(k)
        \/ SynthSaveFail(k)
        \/ SynthReturn(k)
    \/ \E id \in AudioIds : GetAudio(id) \/ TtsFileAges(id)
    \/ cleanup_worker
    \/ cleanup_temp_files

SpecTtsServer == InitTtsServer /\ [][NextTtsServer]_vars

\* the embedding pipeline with the janitor beside it; the disk and the
\* model do not fail by themselves
NextJanitor ==
    \/ \E r \in Req :
        \/ Call(r)
        \/ Identify(r)
        \/ VadBegin(r)
        \/ ExportOpen(r)
        \/ ExportClose(r)
        \/ Glob(r)
        \/ ExtractSe(r)
        \/ SaveOpen(r)
        \/ SaveCommit(r)
    \/ \E d \in dirs : Janitor(d)

SpecJanitor == Init /\ [][NextJanitor]_vars

NextGetSe ==
    \/ \E r \in Req :
        \/ GetSeCall(r)
        \/ Identify(r)
        \/ VadBegin(r)
        \/ ExportOpen(r)
        \/ ExportClose(r)
        \/ ExportFail(r)
        \/ Glob(r)
        \/ WhBegin(r)
        \/ WhEnd(r)
        \/ WhRaise(r)
        \/ ExtractSe(r)
        \/ ExtractFail(r)
        \/ SaveOpen(r)
        \/ SaveCommit(r)
        \/ SaveFail(r)
    \/ WhStart
    \/ WhIter
    \/ WhExportFail
    \/ WhReturn

SpecGetSe == Init /\ [][NextGetSe]_vars

(***************************************************************************)
(* Properties.                                                             *)
(***************************************************************************)
Terminal(r) == req[r].pc \in {"done", "failed"}
\* the request is inside the compute step: segmentation or extraction
InCompute(r) == req[r].pc \in {"export", "exporting", "extract", "save", "saving"}
\* the final artifact paths
ArtifactPaths == {p \in DOMAIN se_files : Len(p) = 2}

\* C1: two concurrent callers with the same cache key are never inside the
\* compute step (segmentation + extraction of get_se) at the same time.
C1_NoConcurrentCompute ==
    \A r1, r2 \in Req :
        (r1 # r2 /\ InCompute(r1) /\ InCompute(r2))
            => req[r1].audio_name # req[r2].audio_name

\* C2: the requests that arrive for one reference audio while it is uncached
\* cause one segmentation run and one extract_se run in total, and all of
\* them return the same embedding.
C2_SingleRunForUncached ==
    \A r1, r2 \in Req :
        (/\ r1 # r2
         /\ req[r1].file # "" /\ req[r1].file = req[r2].file
         /\ ~req[r1].hit /\ ~req[r2].hit)
            => /\ ~(req[r1].segmented /\ req[r2].segmented)
               /\ ~(req[r1].extracted /\ req[r2].extracted)
               /\ (req[r1].pc = "done" /\ req[r2].pc = "done" => req[r1].se = req[r2].se)

\* C3: a call made while the artifact exists at its path performs no
\* segmentation and no extraction.
C3_HitDoesNoWork ==
    \A r \in Req : req[r].hit => ~req[r].segmented /\ ~req[r].extracted

\* C4: no partially written artifact is ever visible at a final artifact
\* path (se.pth), whatever writers, failing writes and other requests do.
C4_NoPartialArtifact ==
    \A p \in ArtifactPaths : se_files[p].complete

\* C4 witness: for one artifact path, one write has failed part-way and
\* another writer is in the middle of its write, while an artifact stands at
\* the path.
C4_Witness ==
    \E r1, r2 \in Req :
        /\ req[r1].pc = "saving"
        /\ req[r2].pc = "failed" /\ req[r2].failed_at = "save"
        /\ req[r1].audio_name = req[r2].audio_name
        /\ SePath(req[r1].audio_name) \in ArtifactPaths

\* the request's own files under the artifact directory
OwnEmbeddingFiles(r) == {p \in DOMAIN se_files : Len(p) = 3 /\ p[3] = r}

\* C5: a request on undecodable audio ends failed in the identity step, a
\* request on audio without enough speech ends failed in segmentation; a
\* request that failed there has run no extraction and written no embedding
\* file, and an audio without enough speech never gets an artifact.
C5_FailureLeavesNoArtifact ==
    \A r \in Req :
        /\ (Terminal(r) /\ ~audio[req[r].file].decodable)
               => req[r].pc = "failed" /\ req[r].failed_at = "hash"
        /\ (Terminal(r) /\ audio[req[r].file].decodable
                /\ 2 * audio[req[r].file].speech_ms < 1000 * DefaultSplitSeconds)
               => /\ req[r].pc = "failed" /\ req[r].failed_at = "split"
                  /\ SePath(req[r].audio_name) \notin DOMAIN se_files
        /\ (req[r].pc = "failed" /\ req[r].failed_at \in {"hash", "split"})
               => /\ ~req[r].extracted /\ ~req[r].stored
                  /\ OwnEmbeddingFiles(r) = {}

\* C5 witness: one request has failed on undecodable audio and another on
\* audio without enough speech.
C5_Witness ==
    \E r1, r2 \in Req :
        /\ req[r1].pc = "failed" /\ req[r1].failed_at = "hash"
        /\ req[r2].pc = "failed" /\ req[r2].failed_at = "split"
        /\ audio[req[r2].file].speech_ms = 3000

\* C6: segmentation starts only after the identity is computed and the
\* artifact is missing (a cache miss), extraction starts only after the
\* segmentation completed, and the artifact is stored only after extraction.
C6_StageOrder ==
    [][\A r \in Req :
          /\ (req[r].pc = "split" /\ req'[r].pc # "split")
                 => /\ req[r].audio_name # << >>
                    /\ SePath(req[r].audio_name) \notin DOMAIN se_files
          /\ (req[r].pc # "save" /\ req'[r].pc = "save")
                 => req[r].segmented /\ req[r].count = req[r].num_splits
          /\ (~req[r].stored /\ req'[r].stored) => req[r].extracted]_vars

\* T/L rounded to the nearest integer, ties away from zero and ties to even
\* (T in ms, L in s), in exact integer arithmetic
RoundHalfUp(t_ms, l_s) == (2 * t_ms + 1000 * l_s) \div (2000 * l_s)
RoundHalfEven(t_ms, l_s) ==
    LET q == t_ms \div (1000 * l_s)
        r == t_ms % (1000 * l_s)
    IN  IF 2 * r > 1000 * l_s \/ (2 * r = 1000 * l_s /\ q % 2 = 1) THEN q + 1 ELSE q

VadEnded == vad.pc \in {"returned", "failed"} /\ vad.error # "export"
VadFileNames == {vad.files[i].seg : i \in 1..Len(vad.files)}

C8_ExactPartition ==
    vad.pc = "returned"
        => /\ vad.files[1].from = 0
           /\ \A i \in 1..(Len(vad.files) - 1) : vad.files[i + 1].from = vad.files[i].to
           /\ vad.files[Len(vad.files)].to = vad.audio_ms

\* C9: any two segments of one run differ in length by at most 1 ms, and
\* 18 s of speech with a 10 s target gives two segments of 9 s.
C9_EqualLengths ==
    vad.pc = "returned"
        => /\ \A i, j \in 1..Len(vad.files) :
                  (vad.files[i].to - vad.files[i].from)
                      - (vad.files[j].to - vad.files[j].from) <= 1
           /\ (vad.audio_ms = 18000 /\ vad.split_seconds = 10)
                  => /\ Len(vad.files) = 2
                     /\ \A i \in 1..2 : vad.files[i].to - vad.files[i].from = 9000

WhDurationOk(e) == e.to - e.from > 1500 /\ e.to - e.from < 20000
WhWritten(e) == e.seg \in wh.files

\* C10 (as stated): a span's file is written iff its trimmed duration is in
\* (1.5 s, 20 s) and its transcript text has at least 2 and fewer than 200
\* characters.
C10_FilterOnTranscriptText ==
    \A i \in 1..Len(wh.log) :
        LET e == wh.log[i]
        IN  WhWritten(e) <=> (WhDurationOk(e) /\ TextLen(e.raw) >= 2 /\ TextLen(e.raw) < 200)

\* C10 (amended): a span's file is written iff its trimmed duration is in
\* (1.5 s, 20 s) and its transcript text, once every '...' is removed from
\* it, has at least 2 and fewer than 200 characters.
C10_FilterOnCleanedText ==
    \A i \in 1..Len(wh.log) :
        LET e == wh.log[i]
        IN  /\ e.saved = WhWritten(e)
            /\ WhWritten(e) <=> (/\ WhDurationOk(e)
                                 /\ TextLen(CleanText(e.raw)) >= 2
                                 /\ TextLen(CleanText(e.raw)) < 200)

\* C10 witness: a span of 200 or more characters was written because
\* removing the dots brought it under 200, and a span at exactly 1.5 s was
\* skipped.
C10_Witness ==
    /\ \E i \in 1..Len(wh.log) : WhWritten(wh.log[i]) /\ TextLen(wh.log[i].raw) >= 200
    /\ \E i \in 1..Len(wh.log) :
          /\ ~WhWritten(wh.log[i])
          /\ wh.log[i].to - wh.log[i].from = 1500
          /\ TextLen(CleanText(wh.log[i].raw)) \in 2..199

\* C11: a get_se call whose segmentation run kept no segment never reaches
\* extract_se and never returns an embedding: it fails.
C11_EmptyCorpusIsError ==
    \A r \in Req :
        (req[r].pc \in {"extract", "save", "saving", "done"} \/ req[r].extracted)
            => req[r].kept # {}

\* the span a log entry was cut for, and the span before it
WhSpan(i) == wh.segments[i]

C13_CutsDisjointAscending ==
    /\ \A i \in 1..Len(wh.log) : wh.log[i].to > wh.log[i].from
    /\ \A i \in 1..(Len(wh.log) - 1) :
          /\ wh.log[i].from <= wh.log[i + 1].from
          /\ wh.log[i].to <= wh.log[i + 1].from

\* the requests whose identity step has returned
Identified == {r \in Req : req[r].audio_name # << >>}
AudioIdentity(r) == req[r].audio_name[3]

\* C14: two get_se calls on reference files whose decoded samples are
\* identical get the same identity from hash_numpy_array, whatever the
\* files are called, and so do two calls on the same file.
C14_IdentityOfSamplesAlone ==
    \A r1, r2 \in Identified :
        audio[req[r1].file].samples = audio[req[r2].file].samples
            => AudioIdentity(r1) = AudioIdentity(r2)

\* C14 witness: two files with different names and identical samples have
\* both been identified, and one file has been identified twice.
C14_Witness ==
    \E r1, r2, r3 \in Identified :
        /\ req[r1].file # req[r2].file
        /\ audio[req[r1].file].samples = audio[req[r2].file].samples
        /\ r3 # r1 /\ req[r3].file = req[r1].file

\* C15: two reference files with identical decoded samples and different
\* names resolve to the same working directory and the same artifact path.
C15_LocationOfIdentityAlone ==
    \A r1, r2 \in Identified :
        audio[req[r1].file].samples = audio[req[r2].file].samples
            => /\ req[r1].audio_name = req[r2].audio_name
               /\ SePath(req[r1].audio_name) = SePath(req[r2].audio_name)

\* C16: every identity the hasher returns has the same fixed length, the 16
\* characters of the truncated base64 prefix.
C16_IdentityFixedLength ==
    \A r \in Identified : Len(AudioIdentity(r)) = IdentityPrefix

\* C17: in one get_se call hashing, segmentation and extract_se are each
\* invoked at most once; a failure of a stage ends the call as failed at
\* that stage, no later stage runs, nothing changes the outcome afterwards,
\* and a call that returns an embedding has run each stage once without
\* failure.
C17_NoRetryNoDefault ==
    [][\A r \in Req :
          /\ req'[r].hash_calls <= 1
          /\ req'[r].split_calls <= 1
          /\ req'[r].extract_calls <= 1
          /\ req[r].pc = "failed" => req'[r] = req[r]
          /\ (req'[r].pc = "failed" /\ req'[r].failed_at = "hash")
                 => req'[r].split_calls = 0 /\ req'[r].extract_calls = 0
          /\ (req'[r].pc = "failed" /\ req'[r].failed_at \in {"split", "glob"})
                 => req'[r].extract_calls = 0
          /\ (req[r].pc # "failed" /\ req'[r].pc = "failed")
                 => req'[r].failed_at =
                        (CASE req[r].pc = "hash" -> "hash"
                           [] req[r].pc \in {"split", "exporting", "whisper"} -> "split"
                           [] req[r].pc = "export" -> "glob"
                           [] req[r].pc = "extract" -> "extract"
                           [] OTHER -> "save")
          /\ req'[r].pc = "done"
                 => /\ req'[r].failed_at = ""
                    /\ req'[r].hash_calls = 1 /\ req'[r].split_calls = 1
                    /\ req'[r].extract_calls = 1
                    /\ req'[r].se # {}]_vars

\* C17 witness: one call has failed in hashing without running a later
\* stage, and one has failed in extract_se after one run of each stage.
C17_Witness ==
    \E r1, r2 \in Req :
        /\ req[r1].pc = "failed" /\ req[r1].failed_at = "hash"
        /\ req[r1].hash_calls = 1
        /\ req[r2].pc = "failed" /\ req[r2].failed_at = "extract"
        /\ req[r2].split_calls = 1 /\ req[r2].extract_calls = 1

\* C18: a request whose get_se call raised is answered with status 500, and
\* with nothing else: it never gets a response of another status, and it
\* runs no later stage of the handler.
C18_PipelineErrorIs500 ==
    \A r \in Req :
        req[r].pc = "failed"
            => /\ req[r].status \in {0, 500}
               /\ req[r].http = "responded" <=> req[r].status = 500
               /\ req[r].base = << >> /\ req[r].final = << >>

\* C18 witness: a request after the self-test has been answered after its
\* get_se call failed in segmentation.
C18_Witness ==
    \E r \in Req :
        /\ r # SelfTest
        /\ req[r].pc = "failed" /\ req[r].failed_at = "split"
        /\ req[r].http = "responded"

\* the steps that end a request or clean up after it
Completes(r) == req'[r].http # req[r].http \/ req'[r].cleanup # req[r].cleanup

\* C19: the steps that complete a request, the clean-up task and the
\* time-based clean-up of temporary files leave the embedding artifacts,
\* the segment folders and the directories as they are; a completing
\* request removes no output file but its own base and final file.
C19_CompletionKeepsArtifacts ==
    [][/\ \A r \in Req :
            Completes(r)
                => /\ se_files' = se_files /\ wavs' = wavs /\ dirs' = dirs
                   /\ \A q \in DOMAIN outputs \ DOMAIN outputs' :
                          q \in {req'[r].base, req'[r].final}
       /\ tmp' # tmp
            => /\ se_files' = se_files /\ wavs' = wavs /\ dirs' = dirs
               /\ outputs' = outputs]_vars

\* C19 witness: the self-test has been answered and its clean-up task has
\* returned, a later request has failed in the conversion and removed its
\* base file, and the artifact and the segments are in place.
C19_Witness ==
    \E r \in Req :
        /\ req[SelfTest].cleanup = "returned"
        /\ r # SelfTest
        /\ req[r].http = "responded" /\ req[r].status = 500
        /\ req[r].base # << >> /\ req[r].base \notin DOMAIN outputs
        /\ req[r].final # << >>
        /\ SePath(req[r].audio_name) \in DOMAIN se_files
        /\ WavsOf(req[r].audio_name) # << >>

\* C20: a request whose cache subdirectory was deleted while it was in
\* progress does not fail: it recomputes and returns an embedding.
C20_SweptRequestRecovers ==
    \A r \in Req : req[r].swept => req[r].pc # "failed"

SplitReturned(r) ==
    /\ req[r].segmented
    /\ \/ req[r].pc \in {"extract", "save", "saving", "done"}
       \/ req[r].pc = "failed" /\ req[r].failed_at \in {"glob", "extract", "save"}

\* two calls, one right after the other, for the same audio with the same
\* strategy, whose segmentation runs both returned
SameRunTwice(r1, r2) ==
    /\ r2 = r1 + 1
    /\ req[r1].file = req[r2].file
    /\ req[r1].vad = req[r2].vad
    /\ req[r1].spans = req[r2].spans
    /\ SplitReturned(r1)
    /\ SplitReturned(r2)

\* C22: running the segmentation a second time for the same audio with the
\* same strategy uses the same working directory and leaves exactly the
\* set of segment files the first run left.
C22_SecondRunLeavesSameFiles ==
    \A r1, r2 \in Req :
        SameRunTwice(r1, r2)
            => /\ req[r2].audio_name = req[r1].audio_name
               /\ req[r2].audio_segs = req[r1].audio_segs

\* C22 witness: the transcription of two spans was run twice on one clip;
\* both runs returned and the folder holds the file of the kept span.
C22_Witness ==
    \E r1, r2 \in Req :
        /\ SameRunTwice(r1, r2)
        /\ ~req[r1].vad
        /\ Len(req[r1].spans) = 2
        /\ req[r1].kept # {}
        /\ req[r2].kept = req[r1].kept
        /\ req[r2].audio_segs = req[r1].audio_segs

\* the VAD segmentation of call r was entered for a clip whose detected
\* speech rounds to zero segments
TooShortForVad(r) ==
    /\ req[r].split_calls = 1
    /\ req[r].vad
    /\ audio[req[r].file].decodable
    /\ RoundHalfEven(audio[req[r].file].speech_ms, DefaultSplitSeconds) = 0

\* C25: when the detected speech rounds to zero segments the VAD
\* segmentation fails: no segment file is written, and get_se re-raises
\* without calling extract_se.
C25_TooShortIsError ==
    \A r \in Req :
        TooShortForVad(r)
            => /\ req[r].pc = "failed"
               /\ req[r].failed_at = "split"
               /\ req[r].kept = {}
               /\ req[r].num_splits = 0
               /\ DOMAIN WavsOf(req[r].audio_name) = {}
               /\ req[r].extract_calls = 0
               /\ ~req[r].extracted
               /\ req[r].se = {}

\* C25 witness: a request for a persona with a too short reference clip
\* went through the segmentation, after the self-test had passed.
C25_Witness ==
    \E r \in Req \ {SelfTest} :
        /\ TooShortForVad(r)
        /\ req[r].pc = "failed"
        /\ req[SelfTest].pc = "done"

\* the response of request r was returned with the audio
Succeeded(r) == req[r].http = "responded" /\ req[r].status = OkStatus

\* C27: after a successful response the final file is eventually deleted,
\* and it is not deleted before it was streamed.
C27_FinalFileEventuallyDeleted ==
    \A r \in Req :
        /\ Succeeded(r) ~> (req[r].final \notin DOMAIN outputs)
        /\ [](Succeeded(r) /\ req[r].streamed = "" => req[r].final \in DOMAIN outputs)

\* C28: the segment files a get_se call hands to extract_se are exactly
\* the files its own segmentation run wrote; files an earlier run left in
\* the folder are not among them.
C28_ExtractGetsOwnSegmentsOnly ==
    \A r \in Req :
        (req[r].pc \in {"extract", "save", "saving", "done"} \/ req[r].extracted)
            => req[r].audio_segs = req[r].kept

\* request r has been accepted and its response is not yet fully sent
InFlight(r) ==
    /\ req[r].pc # "idle"
    /\ ~(req[r].http = "responded" /\ (req[r].status # OkStatus \/ req[r].streamed # ""))

\* C29: two requests in flight at the same time never use the same base
\* file or the same final file, whatever their personas and whenever they
\* take their paths.
C29_NoSharedOutputFile ==
    \A r1, r2 \in Req \ {SelfTest} :
        (r1 # r2 /\ InFlight(r1) /\ InFlight(r2))
            => /\ req[r1].base # << >> => req[r1].base # req[r2].base
               /\ req[r1].final # << >> => req[r1].final # req[r2].final

InitStages ==
    {"starting", "checking_dependencies", "configuring_device", "downloading_model",
     "ready", "failed"}

\* C23: GET /health answers 200 in every initialization state, and a
\* failed model load shows in the status field of the body.
C23_HealthAlways200 ==
    /\ srv.initialization_stage \in InitStages
    /\ health_check.code = OkStatus
    /\ (srv.initialization_stage = "failed" /\ ~srv.tts_model)
           => health_check.status = "failed"
    /\ srv.health # << >>
           => /\ srv.health.code = OkStatus
              /\ (srv.health.initialization_stage = "failed" /\ ~srv.health.model_loaded)
                     => /\ srv.health.status = "failed"
                        /\ srv.health.error_message # "None"

\* C23 witness: /health was asked after the model load had failed and
\* answered 200 with status "failed".
C23_Witness ==
    /\ srv.health # << >>
    /\ srv.health.code = OkStatus
    /\ srv.health.status = "failed"
    /\ srv.health.initialization_stage = "failed"
    /\ ~srv.tts_model

\* C24: an audio id returned by a successful POST /synthesize is answered
\* by GET /audio/{audio_id} without 404 as long as its file is less than an
\* hour old, whatever the clean-up thread and POST /cleanup did meanwhile.
C24_RetrievableForAnHour ==
    /\ \A id \in srv.issued :
          id \notin srv.aged => id \in DOMAIN tmp /\ get_audio(id) = OkStatus
    /\ srv.not_found = {}

\* C24 witness: the clean-up removed an older file while a younger one,
\* issued and asked for, is still there.
C24_Witness ==
    \E old, young \in AudioIds :
        /\ {old, young} \subseteq srv.issued
        /\ old \in srv.aged /\ old \notin DOMAIN tmp
        /\ young \notin srv.aged /\ young \in DOMAIN tmp
        /\ young \in srv.got
        /\ srv.thread

\* the model was not loaded when synthesis request k was checked: the
\* request ended before an audio id was drawn
RefusedUnloaded(k) == srv.synth[k].pc = "done" /\ srv.synth[k].audio_id = ""

\* C26: a synthesis request that finds the model not loaded is answered
\* 503, with no generation and no file, and the 503 is not turned into a
\* 500; a 500 comes from an exception that is not an HTTPException, or from
\* the handler's own HTTPException(500).
C26_NotLoadedIs503 ==
    \A k \in SynthReq :
        /\ RefusedUnloaded(k)
              => /\ srv.synth[k].code = Unavailable
                 /\ srv.synth[k].raised = "HTTPException"
                 /\ ~srv.synth[k].generated
                 /\ ~srv.synth[k].wrote
        /\ (srv.synth[k].pc = "done" /\ srv.synth[k].raised = "Exception")
              => srv.synth[k].code = SynthesisFailed
        /\ (srv.synth[k].pc = "done" /\ srv.synth[k].code = SynthesisFailed
               /\ srv.synth[k].raised = "HTTPException")
              => srv.synth[k].wrote

\* C26 witness: a synthesis request was refused with 503 after the model
\* load had failed.
C26_Witness ==
    \E k \in SynthReq :
        /\ RefusedUnloaded(k)
        /\ srv.synth[k].code = Unavailable
        /\ ~srv.tts_model
        /\ DOMAIN tmp = {}

\* C30: once initialize_model has returned, it returned True exactly when
\* the stage is "ready" and the model is loaded, False exactly when the
\* stage is "failed", the model is not loaded and the error is set, and
\* the error is None in every stage but "failed".
C30_InitializationConsistent ==
    srv.init \in {"returned", "up"}
        => /\ srv.result = "True"
                 <=> (srv.initialization_stage = "ready" /\ srv.tts_model)
           /\ srv.result = "False"
                 <=> (/\ srv.initialization_stage = "failed"
                      /\ ~srv.tts_model
                      /\ srv.initialization_error # "None")
           /\ srv.initialization_stage # "failed" => srv.initialization_error = "None"

====
